---- MODULE Spec2Model ----
(***************************************************************************)
(* Model of util/importers/fisher.py: the DataSet handle, its producer     *)
(* threads, the PaddingFIFOQueue they feed and the batch consumer.         *)
(***************************************************************************)
EXTENDS Integers, Sequences, FiniteSets, TLC

\* ------------------------------------------------------------------ bounds
MaxFiles == 3
MaxThreads == 2
MaxBatch == 2
MaxGpus == 2
MaxBatches == 2
MaxCloses == 2
MaxLoad == 8
MaxRows == 10
MaxRowsBatch == 4
MaxFairFiles == 1
MaxFrameThreads == 1
MaxCorpus == 7

Threads == 1..MaxThreads

\* ------------------------------------------------------------------ state
VARIABLES
    _filelist,      \* the DataFrame given to __init__: rows (wav_filename, wav_filesize, transcript)
    _files_list,    \* the sorted (wav_filename, transcript) rows
    batch_size,
    _thread_count,
    available_gpus, \* len(get_available_gpus()) at construction: none, or MaxGpus
    _coord,         \* "None" or "coord"
    stop_requested, \* the caller's coordinator: should_stop()
    closed,         \* example_queue has been closed
    close_calls,    \* completed calls of close_queue
    close_error,    \* a close_queue call raised
    example_queue,  \* the queued elements, oldest first
    pc,             \* per producer thread: where it is
    index,          \* per producer thread: the generator's local index
    feed,           \* per producer thread: the feed_dict of its enqueue
    daemon,         \* per producer thread: Thread.daemon
    start_pc,       \* start_queue_threads: "idle", "loop", "returned"
    start_i,        \* start_queue_threads: position of the for loop
    batch_threads,  \* what start_queue_threads returned
    consumer,       \* the training loop: "idle", "waiting", "out_of_range"
    batch,          \* what the last next_batch evaluated to
    batches,        \* batches delivered so far
    total,          \* the value read from total_batches, -1 before
    corpus_2004,    \* the rows _split_wav_and_sentences finds for LDC2004
    corpus_2005,    \* the rows _split_wav_and_sentences finds for LDC2005
    csv_found,      \* which of train_csvs, dev_csvs, test_csvs name a file
    train_files,    \* read_data_sets: a table, or None
    dev_files,
    test_files,
    csv_files,      \* the files written by to_csv
    etl_pc,         \* read_data_sets: "start", "done", "raised"
    split           \* a call of _split_sets: its argument and its result

vars == <<_filelist, _files_list, batch_size, _thread_count, available_gpus,
          _coord, stop_requested, closed, close_calls, close_error,
          example_queue, pc, index, feed, daemon, start_pc, start_i,
          batch_threads, consumer, batch, batches, total,
          corpus_2004, corpus_2005, csv_found, train_files, dev_files,
          test_files, csv_files, etl_pc, split>>

config == <<_filelist, _files_list, batch_size, _thread_count, available_gpus>>
queue_vars == <<closed, close_calls, close_error, example_queue>>
thread_vars == <<pc, index, feed, daemon>>
start_vars == <<start_pc, start_i, batch_threads>>
consumer_vars == <<consumer, batch, batches>>
import_vars == <<corpus_2004, corpus_2005, csv_found, train_files, dev_files,
                 test_files, csv_files, etl_pc, split>>

\* ------------------------------------------------------------------ helpers
Max(a, b) == IF a >= b THEN a ELSE b

RECURSIVE SeqMax(_)
SeqMax(s) == IF s = <<>> THEN 0 ELSE Max(Head(s), SeqMax(Tail(s)))

NoFeed == [x |-> <<>>, x_length |-> 0, y |-> <<>>, y_length |-> 0]
NoBatch == [source |-> <<>>, source_lengths |-> <<>>, sparse_labels |-> {}]

None == [none |-> TRUE, rows |-> <<>>]
Table(rows) == [none |-> FALSE, rows |-> rows]
NoSplit == [called |-> FALSE, filelist |-> <<>>, sets |-> <<<<>>, <<>>, <<>>>>]

\* The transcript of the k-th input row: one or two letters, as character codes.
Transcript(k) == [i \in 1..(1 + (k % 2)) |-> 97 + ((k + i) % 2)]

\* The byte size of the k-th input row: not ascending, and equal for rows
\* seven apart.
FileSize(k) == 1 + ((k * 3) % 7)

\* The DataFrames a caller can pass: 0..m rows.
FileLists(m) ==
    { [k \in 1..n |-> [wav_filename |-> k, wav_filesize |-> FileSize(k),
                       transcript |-> Transcript(k)]] : n \in 0..m }

\* ------------------------------------------------------------------ __init__
_get_device_count_plus(gpus) == gpus + 1
_get_device_count_raw(gpus) == gpus
_get_device_count(gpus) == Max(gpus, 1)

capacity == 2 * _get_device_count(available_gpus) * batch_size

\* The orders in which a sort by wav_filesize can leave the rows idxs of fl:
\* ascending, rows of equal size in any order (the default sort is not stable).
RECURSIVE Ascending(_, _)
Ascending(fl, idxs) ==
    IF idxs = {} THEN { <<>> }
    ELSE UNION { { <<k>> \o rest : rest \in Ascending(fl, idxs \ {k}) }
                 : k \in { i \in idxs : \A j \in idxs :
                              fl[i].wav_filesize <= fl[j].wav_filesize } }

_create_files_list_unsorted(fl) ==
    { [i \in 1..Len(fl) |-> [wav_filename |-> fl[i].wav_filename,
                             transcript |-> fl[i].transcript]] }

\* sort_values(by="wav_filesize"), then the two columns.
_create_files_list(fl) ==
    { [i \in 1..Len(fl) |-> [wav_filename |-> fl[a[i]].wav_filename,
                             transcript |-> fl[a[i]].transcript]]
      : a \in Ascending(fl, 1..Len(fl)) }

Constructed(filelists, batch_sizes) ==
    /\ _filelist \in filelists
    /\ _files_list \in _create_files_list(_filelist)
    /\ batch_size \in batch_sizes
    /\ _thread_count \in 0..MaxThreads
    /\ available_gpus \in {0, MaxGpus}
    /\ _thread_count * 2 * Max(1, available_gpus) * batch_size <= MaxLoad
    /\ _coord = "None"
    /\ stop_requested = FALSE
    /\ closed = FALSE
    /\ close_calls = 0
    /\ close_error = FALSE
    /\ example_queue = <<>>
    /\ pc = [p \in Threads |-> "none"]
    /\ index = [p \in Threads |-> -1]
    /\ feed = [p \in Threads |-> NoFeed]
    /\ daemon = [p \in Threads |-> FALSE]
    /\ start_pc = "idle"
    /\ start_i = 1
    /\ batch_threads = {}
    /\ consumer = "idle"
    /\ batch = NoBatch
    /\ batches = 0
    /\ total = -1

\* No import runs beside the handle.
NotImporting ==
    /\ corpus_2004 = <<>>
    /\ corpus_2005 = <<>>
    /\ csv_found = {}
    /\ train_files = None
    /\ dev_files = None
    /\ test_files = None
    /\ csv_files = {}
    /\ etl_pc = "start"
    /\ split = NoSplit

Init == Constructed(FileLists(MaxFiles), 1..MaxBatch) /\ NotImporting

\* ------------------------------------------------------------------ collaborators
\* util.audio: one frame per four bytes of audio begun, at least one; a frame
\* is written as the (nonzero) number of the file it was computed from.
audiofile_to_input_vector(wav_file) ==
    [t \in 1..(1 + (_filelist[wav_file].wav_filesize \div 4)) |-> wav_file]

\* util.text: letters to symbol indices ('a' is 1).
text_to_char_array(transcript) ==
    [i \in 1..Len(transcript) |-> transcript[i] - 96]

\* util.text: the dense label block to (batch position, time, symbol) entries,
\* keeping the first label_lengths[b] symbols of each row.
ctc_label_dense_to_sparse(labels, label_lengths, n) ==
    UNION { { <<b, t, labels[b][t]>> : t \in 1..label_lengths[b] } : b \in 1..n }

\* ------------------------------------------------------------------ start_queue_threads
\* The Thread objects made so far: threads 1..Created.
Created == Cardinality({ p \in Threads : pc[p] # "none" })

\* A call: the first one, or a later one on the handle whose queue has been
\* closed (the method itself tests nothing). fresh: the caller passes a
\* coordinator made for this call, whose flag is unset, instead of the one
\* in use; stop_requested is the flag of the coordinator in use.
start_queue_threads(fresh) ==
    /\ start_pc = "idle" \/ (start_pc = "returned" /\ closed)
    /\ Created + _thread_count <= MaxThreads
    /\ (Created + _thread_count) * capacity <= MaxLoad
    /\ _coord' = "coord"
    /\ stop_requested' = (IF fresh THEN FALSE ELSE stop_requested)
    /\ pc' = [p \in Threads |->
                IF p \in (Created + 1)..(Created + _thread_count)
                  THEN "created" ELSE pc[p]]
    /\ start_pc' = "loop"
    /\ start_i' = Created + 1
    /\ UNCHANGED <<import_vars, config, total, queue_vars, index, feed, daemon,
                   batch_threads, consumer_vars>>

thread_start_plain(p) ==
    /\ daemon' = daemon
    /\ pc' = [pc EXCEPT ![p] = "check"]

thread_start(p) ==
    /\ daemon' = [daemon EXCEPT ![p] = TRUE]
    /\ pc' = [pc EXCEPT ![p] = "check"]

start_loop ==
    /\ start_pc = "loop"
    /\ start_i <= Created
    /\ thread_start(start_i)
    /\ start_i' = start_i + 1
    /\ UNCHANGED <<import_vars, config, total, _coord, stop_requested, queue_vars, index, feed,
                   start_pc, batch_threads, consumer_vars>>

start_return ==
    /\ start_pc = "loop"
    /\ start_i > Created
    /\ batch_threads' = (Created - _thread_count + 1)..Created
    /\ start_pc' = "returned"
    /\ UNCHANGED <<import_vars, config, total, _coord, stop_requested, queue_vars, thread_vars,
                   start_i, consumer_vars>>

\* ------------------------------------------------------------------ the coordinator
request_stop ==
    /\ ~stop_requested
    /\ stop_requested' = TRUE
    /\ UNCHANGED <<import_vars, config, total, _coord, queue_vars, thread_vars, start_vars, consumer_vars>>

\* ------------------------------------------------------------------ close_queue
close_queue_strict ==
    /\ close_calls < MaxCloses
    /\ closed' = TRUE
    /\ close_calls' = close_calls + 1
    /\ close_error' = (close_error \/ closed)
    /\ UNCHANGED <<import_vars, config, total, _coord, stop_requested, example_queue,
                   thread_vars, start_vars, consumer_vars>>

close_queue ==
    /\ close_calls < MaxCloses
    /\ closed' = TRUE
    /\ close_calls' = close_calls + 1
    /\ UNCHANGED <<import_vars, config, total, _coord, stop_requested, close_error, example_queue,
                   thread_vars, start_vars, consumer_vars>>

\* ------------------------------------------------------------------ producers
next_index(x) == x + 1

\* index = next_index(index) % len(files_list), for a list of n rows.
wrap_clamped(i, n) == IF i >= n THEN n - 1 ELSE i
wrap(i, n) == i % n

\* One advance of a thread's generator: the loop test, then the next row.
_indices_unchecked(p) ==
    /\ pc[p] = "check"
    /\ IF _coord = "None" \/ Len(_files_list) = 0
         THEN pc' = [pc EXCEPT ![p] = "failed"] /\ index' = index
         ELSE /\ index' = [index EXCEPT
                             ![p] = wrap(next_index(index[p]), Len(_files_list))]
              /\ pc' = [pc EXCEPT ![p] = "compute"]
    /\ UNCHANGED <<import_vars, config, total, _coord, stop_requested, queue_vars, feed, daemon,
                   start_vars, consumer_vars>>

_indices(p) ==
    /\ pc[p] = "check"
    /\ IF _coord = "None"
         THEN pc' = [pc EXCEPT ![p] = "failed"] /\ index' = index
         ELSE IF stop_requested
           THEN pc' = [pc EXCEPT ![p] = "stopped"] /\ index' = index
           ELSE IF Len(_files_list) = 0
             THEN pc' = [pc EXCEPT ![p] = "failed"] /\ index' = index
             ELSE /\ index' = [index EXCEPT
                                 ![p] = wrap(next_index(index[p]), Len(_files_list))]
                  /\ pc' = [pc EXCEPT ![p] = "compute"]
    /\ UNCHANGED <<import_vars, config, total, _coord, stop_requested, queue_vars, feed, daemon,
                   start_vars, consumer_vars>>

\* The row the generator of thread p yielded last.
yielded(p) == _files_list[index[p] + 1]

compute_ok_swapped(p) ==
    /\ pc[p] = "compute"
    /\ LET source == audiofile_to_input_vector(yielded(p).wav_filename)
           target == text_to_char_array(yielded(p).transcript)
       IN  feed' = [feed EXCEPT ![p] = [x |-> source, x_length |-> Len(target),
                                        y |-> target, y_length |-> Len(source)]]
    /\ pc' = [pc EXCEPT ![p] = "enqueue"]
    /\ UNCHANGED <<import_vars, config, total, _coord, stop_requested, queue_vars, index, daemon,
                   start_vars, consumer_vars>>

compute_ok(p) ==
    /\ pc[p] = "compute"
    /\ LET source == audiofile_to_input_vector(yielded(p).wav_filename)
           target == text_to_char_array(yielded(p).transcript)
       IN  feed' = [feed EXCEPT ![p] = [x |-> source, x_length |-> Len(source),
                                        y |-> target, y_length |-> Len(target)]]
    /\ pc' = [pc EXCEPT ![p] = "enqueue"]
    /\ UNCHANGED <<import_vars, config, total, _coord, stop_requested, queue_vars, index, daemon,
                   start_vars, consumer_vars>>

compute_error_fatal(p) ==
    /\ pc[p] = "compute"
    /\ pc' = [q \in Threads |->
                IF pc[q] \in {"check", "compute", "enqueue"} THEN "failed" ELSE pc[q]]
    /\ UNCHANGED <<import_vars, config, total, _coord, stop_requested, queue_vars, index, feed,
                   daemon, start_vars, consumer_vars>>

\* The feature or the label computation raises: the thread ends.
compute_error(p) ==
    /\ pc[p] = "compute"
    /\ pc' = [pc EXCEPT ![p] = "failed"]
    /\ UNCHANGED <<import_vars, config, total, _coord, stop_requested, queue_vars, index, feed,
                   daemon, start_vars, consumer_vars>>

full == Len(example_queue) >= capacity

enqueue_retry(p) ==
    /\ pc[p] = "enqueue"
    /\ IF closed
         THEN /\ pc' = [pc EXCEPT ![p] = "check"]
              /\ example_queue' = example_queue
         ELSE /\ ~full
              /\ example_queue' = Append(example_queue, feed[p])
              /\ pc' = [pc EXCEPT ![p] = "check"]
    /\ feed' = [feed EXCEPT ![p] = NoFeed]
    /\ UNCHANGED <<import_vars, config, total, _coord, stop_requested, closed, close_calls,
                   close_error, index, daemon, start_vars, consumer_vars>>

enqueue_deliver_pending(p) ==
    /\ pc[p] = "enqueue"
    /\ ~full
    /\ example_queue' = Append(example_queue, feed[p])
    /\ pc' = [pc EXCEPT ![p] = IF closed THEN "cancelled" ELSE "check"]
    /\ feed' = [feed EXCEPT ![p] = NoFeed]
    /\ UNCHANGED <<import_vars, config, total, _coord, stop_requested, closed, close_calls,
                   close_error, index, daemon, start_vars, consumer_vars>>

enqueue_raise(p) ==
    /\ pc[p] = "enqueue"
    /\ IF closed
         THEN /\ pc' = [pc EXCEPT ![p] = "failed"]
              /\ example_queue' = example_queue
         ELSE /\ ~full
              /\ example_queue' = Append(example_queue, feed[p])
              /\ pc' = [pc EXCEPT ![p] = "check"]
    /\ feed' = [feed EXCEPT ![p] = NoFeed]
    /\ UNCHANGED <<import_vars, config, total, _coord, stop_requested, closed, close_calls,
                   close_error, index, daemon, start_vars, consumer_vars>>

enqueue(p) ==
    /\ pc[p] = "enqueue"
    /\ IF closed
         THEN /\ pc' = [pc EXCEPT ![p] = "cancelled"]
              /\ example_queue' = example_queue
         ELSE /\ ~full
              /\ example_queue' = Append(example_queue, feed[p])
              /\ pc' = [pc EXCEPT ![p] = "check"]
    /\ feed' = [feed EXCEPT ![p] = NoFeed]
    /\ UNCHANGED <<import_vars, config, total, _coord, stop_requested, closed, close_calls,
                   close_error, index, daemon, start_vars, consumer_vars>>

_populate_batch_queue(p) ==
    \/ _indices(p)
    \/ compute_ok(p)
    \/ compute_error(p)
    \/ enqueue(p)

\* ------------------------------------------------------------------ consumer
Pad(s, n) == s \o [i \in 1..(n - Len(s)) |-> 0]

\* The first n elements as padded tensors.
dequeue_many(n) ==
    LET els == SubSeq(example_queue, 1, n)
        t_max == SeqMax([b \in 1..n |-> Len(els[b].x)])
        u_max == SeqMax([b \in 1..n |-> Len(els[b].y)])
    IN  [source |-> [b \in 1..n |-> Pad(els[b].x, t_max)],
         source_lengths |-> [b \in 1..n |-> els[b].x_length],
         target |-> [b \in 1..n |-> Pad(els[b].y, u_max)],
         target_lengths |-> [b \in 1..n |-> els[b].y_length]]

next_batch ==
    /\ consumer = "idle"
    /\ batches < MaxBatches
    /\ consumer' = "waiting"
    /\ batch' = NoBatch
    /\ UNCHANGED <<import_vars, config, total, _coord, stop_requested, queue_vars, thread_vars,
                   start_vars, batches>>

next_batch_return_available ==
    /\ consumer = "waiting"
    /\ Len(example_queue) >= 1
    /\ LET n == IF Len(example_queue) < batch_size
                  THEN Len(example_queue) ELSE batch_size
           d == dequeue_many(n)
       IN  /\ batch' = [source |-> d.source,
                        source_lengths |-> d.source_lengths,
                        sparse_labels |-> ctc_label_dense_to_sparse(
                            d.target, d.target_lengths, n)]
           /\ example_queue' = SubSeq(example_queue, n + 1, Len(example_queue))
    /\ consumer' = "idle"
    /\ batches' = batches + 1
    /\ UNCHANGED <<import_vars, config, total, _coord, stop_requested, closed, close_calls,
                   close_error, thread_vars, start_vars>>

next_batch_return ==
    /\ consumer = "waiting"
    /\ Len(example_queue) >= batch_size
    /\ LET d == dequeue_many(batch_size)
       IN  batch' = [source |-> d.source,
                     source_lengths |-> d.source_lengths,
                     sparse_labels |-> ctc_label_dense_to_sparse(
                         d.target, d.target_lengths, batch_size)]
    /\ example_queue' = SubSeq(example_queue, batch_size + 1, Len(example_queue))
    /\ consumer' = "idle"
    /\ batches' = batches + 1
    /\ UNCHANGED <<import_vars, config, total, _coord, stop_requested, closed, close_calls,
                   close_error, thread_vars, start_vars>>

\* The queue is closed and cannot supply batch_size elements: OutOfRangeError.
next_batch_out_of_range_short ==
    /\ consumer = "waiting"
    /\ closed
    /\ Len(example_queue) < batch_size
    /\ LET n == Len(example_queue)
           d == dequeue_many(n)
       IN  batch' = [source |-> d.source,
                     source_lengths |-> d.source_lengths,
                     sparse_labels |-> ctc_label_dense_to_sparse(
                         d.target, d.target_lengths, n)]
    /\ example_queue' = <<>>
    /\ consumer' = "idle"
    /\ batches' = batches + 1
    /\ UNCHANGED <<import_vars, config, total, _coord, stop_requested, closed, close_calls,
                   close_error, thread_vars, start_vars>>

next_batch_out_of_range ==
    /\ consumer = "waiting"
    /\ closed
    /\ Len(example_queue) < batch_size
    /\ consumer' = "out_of_range"
    /\ UNCHANGED <<import_vars, config, total, _coord, stop_requested, queue_vars, thread_vars,
                   start_vars, batch, batches>>

\* ------------------------------------------------------------------ total_batches
\* ceil of the quotient num / den of true division.
ceil_floor(num, den) == num \div den
ceil(num, den) == IF num % den = 0 THEN num \div den ELSE (num \div den) + 1

total_batches == ceil(Len(_filelist), batch_size)

read_total_batches ==
    /\ total = -1
    /\ total' = total_batches
    /\ UNCHANGED <<import_vars, config, _coord, stop_requested, queue_vars, thread_vars,
                   start_vars, consumer_vars>>

\* ------------------------------------------------------------------ read_data_sets
\* The DataFrame of _split_wav_and_sentences for one corpus: n rows.
Corpus(year, n) ==
    [k \in 1..n |-> [wav_filename |-> (year * 100) + k, wav_filesize |-> FileSize(k),
                     transcript |-> Transcript(k)]]

Corpora(year) == { Corpus(year, n) : n \in 0..MaxCorpus }

\* int(0.8 * n): the double product truncated. For n >= 0 it is the integer
\* part of 4n/5 (the double 0.8 lies above 4/5 by less than 1e-16).
int_0_8(n) == (8 * n) \div 10

\* filelist[beg:end]
Slice(filelist, beg, end) == SubSeq(filelist, beg + 1, end)

_split_sets_overlapping(filelist) ==
    LET train_beg == 0
        train_end == int_0_8(Len(filelist))
        dev_beg == int_0_8(train_end)
        dev_end == train_end
        test_beg == dev_end
        test_end == Len(filelist)
    IN  << Slice(filelist, train_beg, train_end),
           Slice(filelist, dev_beg, dev_end),
           Slice(filelist, test_beg, test_end) >>

\* The three slices the return statement lists.
_split_sets(filelist) ==
    LET train_beg == 0
        train_end_0 == int_0_8(Len(filelist))
        dev_beg == int_0_8(train_end_0)
        dev_end == train_end_0
        train_end == dev_beg
        test_beg == dev_end
        test_end == Len(filelist)
    IN  << Slice(filelist, train_beg, train_end),
           Slice(filelist, dev_beg, dev_end),
           Slice(filelist, test_beg, test_end) >>

\* A direct call of _split_sets on the rows of one corpus.
split_sets_call ==
    /\ ~split.called
    /\ \E filelist \in {corpus_2004, corpus_2005} :
          split' = [called |-> TRUE, filelist |-> filelist,
                    sets |-> _split_sets(filelist)]
    /\ UNCHANGED <<config, total, _coord, stop_requested, queue_vars, thread_vars,
                   start_vars, consumer_vars, corpus_2004, corpus_2005, csv_found,
                   train_files, dev_files, test_files, csv_files, etl_pc>>

\* A call with the positional arguments args of the one-parameter function:
\* any other number of arguments raises TypeError.
call_split_sets(args) ==
    IF Len(args) = 1
      THEN [raised |-> FALSE, sets |-> _split_sets(args[1])]
      ELSE [raised |-> TRUE, sets |-> <<<<>>, <<>>, <<>>>>]

\* The table read from the files of one list: None when the list is empty.
read_csvs(csvs) ==
    IF csvs \in csv_found THEN Table(Corpus(0, 1)) ELSE None

to_csv(table, file) == [file |-> file, rows |-> table.rows]

read_data_sets ==
    /\ etl_pc = "start"
    /\ LET train == read_csvs("train")
           dev == read_csvs("dev")
           test == read_csvs("test")
           s2004 == call_split_sets(<<"data_dir", "fisher-2004-split-wav",
                                      "fisher-2004-split-wav-sets">>)
           s2005 == call_split_sets(<<"data_dir", "fisher-2005-split-wav",
                                      "fisher-2005-split-wav-sets">>)
       IN  IF ~(train.none \/ dev.none \/ test.none)
             THEN /\ train_files' = train
                  /\ dev_files' = dev
                  /\ test_files' = test
                  /\ csv_files' = csv_files
                  /\ etl_pc' = "done"
             ELSE IF s2004.raised \/ s2005.raised
               THEN /\ train_files' = train
                    /\ dev_files' = dev
                    /\ test_files' = test
                    /\ csv_files' = csv_files
                    /\ etl_pc' = "raised"
               ELSE \* no row is named by the bare name of problematic_file
                    /\ train_files' = Table(s2004.sets[1] \o s2005.sets[1])
                    /\ dev_files' = Table(s2004.sets[2] \o s2005.sets[2])
                    /\ test_files' = test
                    /\ csv_files' =
                          csv_files
                          \cup { to_csv(train_files', "fisher-train.csv"),
                                 to_csv(dev_files', "fisher-dev.csv") }
                          \cup (IF test.none THEN {}
                                ELSE { to_csv(test, "fisher-test.csv") })
                    /\ etl_pc' = IF test.none THEN "raised" ELSE "done"
    /\ UNCHANGED <<config, total, _coord, stop_requested, queue_vars, thread_vars,
                   start_vars, consumer_vars, corpus_2004, corpus_2005, csv_found,
                   split>>

\* ------------------------------------------------------------------ specification
Next ==
    \/ \E fresh \in BOOLEAN : start_queue_threads(fresh)
    \/ start_loop
    \/ start_return
    \/ request_stop
    \/ close_queue
    \/ \E p \in Threads : _populate_batch_queue(p)
    \/ next_batch
    \/ next_batch_return
    \/ next_batch_out_of_range

Spec == Init /\ [][Next]_vars

\* total_batches over longer lists and larger batches.
TotalInit == Constructed(FileLists(MaxRows), 1..MaxRowsBatch) /\ NotImporting

TotalNext == read_total_batches

TotalSpec == TotalInit /\ [][TotalNext]_vars

\* Every operation of the handle, the read of total_batches among them, on
\* handles of at most one thread a call.
FrameInit == Init /\ _thread_count <= MaxFrameThreads

FrameNext == Next \/ read_total_batches

FrameSpec == FrameInit /\ [][FrameNext]_vars

\* The import: any two corpora, any of the three lists naming a file.
EtlInit ==
    /\ Constructed({<<>>}, {1})
    /\ _thread_count = 0
    /\ available_gpus = 0
    /\ corpus_2004 \in Corpora(2004)
    /\ corpus_2005 \in Corpora(2005)
    /\ csv_found \in SUBSET {"train", "dev", "test"}
    /\ train_files = None
    /\ dev_files = None
    /\ test_files = None
    /\ csv_files = {}
    /\ etl_pc = "start"
    /\ split = NoSplit

EtlNext == read_data_sets \/ split_sets_call

EtlSpec == EtlInit /\ [][EtlNext]_vars

\* Every started thread keeps running, the start loop and a satisfiable
\* dequeue complete; the caller's calls are under no obligation. Which rows
\* are queued does not matter to what eventually happens: the lists are
\* shorter here.
FairInit ==
    /\ Constructed({ fl \in FileLists(MaxFairFiles) : Len(fl) \in {0, MaxFairFiles} },
                   1..MaxBatch)
    /\ NotImporting

FairSpec ==
    /\ FairInit
    /\ [][Next]_vars
    /\ \A p \in Threads : WF_vars(_populate_batch_queue(p))
    /\ WF_vars(start_loop)
    /\ WF_vars(start_return)
    /\ WF_vars(next_batch_return)
    /\ WF_vars(next_batch_out_of_range)

\* ------------------------------------------------------------------ properties
Terminated(p) == pc[p] \in {"stopped", "cancelled", "failed"}
Rows == Len(_files_list)

\* C1: a next_batch that completes found at least batch_size examples queued,
\* removes exactly batch_size of them and returns exactly batch_size examples
\* (features, lengths and labels of batch_size rows); a waiting next_batch
\* with fewer queued does not complete.
C1_ExactBatch ==
    [][ (consumer = "waiting" /\ consumer' = "idle") =>
          /\ Len(example_queue) >= batch_size
          /\ Len(example_queue') = Len(example_queue) - batch_size
          /\ Len(batch'.source) = batch_size
          /\ Len(batch'.source_lengths) = batch_size
          /\ { e[1] : e \in batch'.sparse_labels } = 1..batch_size ]_vars

C1_Witness ==
    /\ batches >= 1
    /\ consumer = "idle"
    /\ batch_size = 2
    /\ _thread_count = 2
    /\ Len(batch.source) = 2
    /\ ~closed

\* C2: in a returned batch every feature row has the length of the longest
\* example of that batch, each lengths entry is the number of frames computed
\* for that example's file, the frames come first and the rest of the row is
\* zero; every queued element carries the lengths of its own feature matrix
\* and label sequence.
C2_Padding ==
    /\ \A i \in 1..Len(example_queue) :
          /\ example_queue[i].x_length = Len(example_queue[i].x)
          /\ example_queue[i].y_length = Len(example_queue[i].y)
    /\ \A b \in 1..Len(batch.source) :
          LET wav == batch.source[b][1]
              frames == 1 + (_filelist[wav].wav_filesize \div 4)
          IN  /\ wav \in 1..Len(_filelist)
              /\ batch.source_lengths[b] = frames
              /\ Len(batch.source[b]) = SeqMax(batch.source_lengths)
              /\ \A t \in 1..Len(batch.source[b]) :
                    batch.source[b][t] = IF t <= frames THEN wav ELSE 0

C2_Witness ==
    /\ Len(batch.source) = 2
    /\ batch.source_lengths[1] = 1
    /\ batch.source_lengths[2] = 2
    /\ Len(batch.source[1]) = 2
    /\ batch.source[1][2] = 0

\* C3: the queue never holds more than 2 * max(1, device count) * batch_size
\* examples, and a producer at its enqueue with the open queue at that size
\* cannot take its step.
C3_Bounded ==
    /\ Len(example_queue) <= 2 * Max(1, available_gpus) * batch_size
    /\ \A p \in Threads :
          ( /\ pc[p] = "enqueue"
            /\ ~closed
            /\ Len(example_queue) = 2 * Max(1, available_gpus) * batch_size )
          => ~ENABLED enqueue(p)

C3_Witness ==
    /\ Len(example_queue) = 2 * Max(1, available_gpus) * batch_size
    /\ ~closed
    /\ \A p \in Threads : pc[p] = "enqueue"

\* C4: once the queue is closed every producer thread that exists ends,
\* whatever the shutdown flag, and a producer's enqueue call after the close
\* never sends it back into the loop.
C4_ProducersEnd ==
    /\ closed ~> (\A p \in Threads : pc[p] = "none" \/ Terminated(p))
    /\ [][ \A p \in Threads :
             (closed /\ pc[p] = "enqueue") => pc'[p] \in {"enqueue", "cancelled"} ]_vars

C4_Witness ==
    /\ closed
    /\ ~stop_requested
    /\ _thread_count = 2
    /\ \A p \in Threads : pc[p] = "cancelled"

\* C5: while producers have been started, none has failed, the queue is open
\* and no stop is requested, a waiting next_batch returns.
Running ==
    /\ start_pc # "idle"
    /\ _thread_count >= 1
    /\ ~closed
    /\ ~stop_requested
    /\ \A p \in Threads : pc[p] # "failed"

C5_NextBatchReturns ==
    (consumer = "waiting" /\ Running) ~> (consumer = "idle" \/ ~Running)

C5_Witness ==
    /\ Running
    /\ consumer = "waiting"
    /\ _thread_count = 2
    /\ batch_size = 2
    /\ Len(example_queue) = capacity
    /\ \A p \in Threads : pc[p] = "enqueue"

\* C6: a close_queue call on the closed queue changes nothing but the number
\* of calls made, and raises nothing.
C6_CloseIdempotent ==
    [][ (closed /\ close_calls' # close_calls) =>
          /\ closed'
          /\ ~close_error'
          /\ UNCHANGED <<import_vars, config, total, _coord, stop_requested, example_queue,
                         thread_vars, start_vars, consumer_vars>> ]_vars

C6_Witness ==
    /\ close_calls = 2
    /\ closed
    /\ ~close_error
    /\ \E p \in Threads : pc[p] = "enqueue"

\* C7: the value read from total_batches is the least number of batches of
\* batch_size rows that cover the list: 3 for 10 rows in batches of 4.
C7_TotalBatches ==
    total # -1 =>
        /\ total * batch_size >= Len(_filelist)
        /\ (total - 1) * batch_size < Len(_filelist)
        /\ (Len(_filelist) = 10 /\ batch_size = 4) => total = 3

C7_Witness ==
    /\ Len(_filelist) = 10
    /\ batch_size = 4
    /\ total = 3

\* C8: a generator's index stays within the rows and steps from each row to
\* the next, from the last row to row 0; no producer fails on a non-empty
\* list unless its computation does; when the list is no multiple of
\* batch_size, the batch number total_batches is full and holds the first
\* row of the list again.
C8_WrapAround ==
    /\ [](\A p \in Threads :
            /\ index[p] \in -1..(Rows - 1)
            /\ pc[p] \in {"compute", "enqueue"} => index[p] \in 0..(Rows - 1))
    /\ [][ \A p \in Threads :
             /\ index'[p] # index[p] =>
                  index'[p] = IF index[p] = Rows - 1 THEN 0 ELSE index[p] + 1
             /\ (pc[p] = "check" /\ pc'[p] = "failed") => Rows = 0 ]_vars
    /\ []( ( /\ Rows % batch_size # 0
             /\ batches = total_batches
             /\ batch # NoBatch )
           => /\ Len(batch.source) = batch_size
              /\ \E b \in 1..batch_size :
                    batch.source[b][1] = _files_list[1].wav_filename )

\* C9: once the queue is closed its length never grows, and an enqueue call
\* that ends after the close ends cancelled.
C9_NoEnqueueAfterClose ==
    [][ closed =>
          /\ Len(example_queue') <= Len(example_queue)
          /\ \A p \in Threads :
                (pc[p] = "enqueue" /\ pc'[p] # "enqueue") => pc'[p] = "cancelled"
      ]_vars

C9_Witness ==
    /\ closed
    /\ Len(example_queue) >= 1
    /\ Len(example_queue) < capacity
    /\ \E p \in Threads : pc[p] = "cancelled"

\* C10: every call of start makes _thread_count threads: the threads that
\* exist are the first Created ones, a whole number of calls' worth; a thread
\* that runs is daemonic and finds the coordinator set; start returns the
\* _thread_count threads of its call, and every thread is started by then.
C10_Start ==
    /\ \A p \in Threads :
          pc[p] \notin {"none", "created"} => (daemon[p] /\ _coord # "None")
    /\ { p \in Threads : pc[p] # "none" } = 1..Created
    /\ start_pc = "idle" => Created = 0
    /\ start_pc # "idle" =>
          (Created >= _thread_count /\ (_thread_count > 0 => Created % _thread_count = 0))
    /\ start_pc = "returned" =>
          /\ batch_threads = (Created - _thread_count + 1)..Created
          /\ Cardinality(batch_threads) = _thread_count
          /\ \A p \in Threads : pc[p] # "created"

C10_Witness ==
    /\ start_pc = "returned"
    /\ _thread_count = 2
    /\ Cardinality(batch_threads) = 2
    /\ \A p \in Threads : pc[p] \in {"check", "compute", "enqueue"}

\* C11: the producers advance one generator: an advance by any thread moves
\* the position from which every other running thread's next advance
\* continues, so no thread walks the list from row 0 on its own.
C11_SharedGenerator ==
    [][ \A p \in Threads : \A q \in Threads :
          ( /\ p # q
            /\ index'[p] # index[p]
            /\ pc[q] \in {"check", "compute", "enqueue"} )
          => index'[q] = index'[p] ]_vars

\* C12: a producer takes a row only in the step of its loop test, and only
\* when that test finds the flag unset; the per-example work runs test,
\* computation, enqueue, test; a producer whose test finds the flag set stops
\* and stays stopped, so after the request it finishes at most the iteration
\* it is in.
C12_OneCheckPerIteration ==
    [][ \A p \in Threads :
          /\ index'[p] # index[p] =>
                (pc[p] = "check" /\ ~stop_requested /\ pc'[p] = "compute")
          /\ (pc'[p] = "compute" /\ pc[p] # "compute") =>
                (pc[p] = "check" /\ ~stop_requested)
          /\ pc[p] = "compute" => pc'[p] \in {"compute", "enqueue", "failed"}
          /\ pc[p] = "enqueue" => pc'[p] \in {"enqueue", "check", "cancelled"}
          /\ (pc[p] = "check" /\ stop_requested /\ _coord # "None") =>
                pc'[p] \in {"check", "stopped"}
          /\ pc[p] = "stopped" => pc'[p] = "stopped" ]_vars

C12_Witness ==
    /\ stop_requested
    /\ ~closed
    /\ pc[1] = "stopped"
    /\ pc[2] = "enqueue"
    /\ index[2] = 1

\* C13: an enqueue call that ends on the closed queue ends the thread
\* cancelled, not failed and not back in the loop, with the flag set or not;
\* that step adds nothing to the queue and moves no other thread, and a
\* cancelled thread takes no further step.
C13_CancelledExit ==
    [][ \A p \in Threads :
          /\ (closed /\ pc[p] = "enqueue" /\ pc'[p] # "enqueue") =>
                /\ pc'[p] = "cancelled"
                /\ example_queue' = example_queue
                /\ \A q \in Threads \ {p} : pc'[q] = pc[q]
          /\ pc'[p] = "cancelled" => (closed /\ pc[p] \in {"enqueue", "cancelled"})
          /\ pc[p] = "cancelled" =>
                (pc'[p] = "cancelled" /\ index'[p] = index[p] /\ feed'[p] = feed[p])
      ]_vars

C13_Witness ==
    /\ closed
    /\ ~stop_requested
    /\ pc[1] = "cancelled"
    /\ pc[2] = "compute"
    /\ Len(example_queue) < capacity

\* C14: a computation that raises ends its own thread and nothing else: the
\* queue, the consumer and every other thread are as before, the failed
\* thread takes no further step; and a waiting next_batch still returns
\* while a producer is left, the queue is open and no stop is requested.
Alive == \E p \in Threads : pc[p] \in {"created", "check", "compute", "enqueue"}

C14_FailureIsLocal ==
    /\ [][ \A p \in Threads :
             /\ (pc[p] = "compute" /\ pc'[p] = "failed") =>
                   /\ UNCHANGED <<queue_vars, consumer_vars, index, feed>>
                   /\ \A q \in Threads \ {p} : pc'[q] = pc[q]
             /\ pc[p] = "failed" =>
                   (pc'[p] = "failed" /\ index'[p] = index[p] /\ feed'[p] = feed[p])
         ]_vars
    /\ ( /\ consumer = "waiting"
         /\ \E p \in Threads : pc[p] = "failed"
         /\ Alive /\ ~closed /\ ~stop_requested )
       ~> (consumer = "idle" \/ ~Alive \/ closed \/ stop_requested)

C14_Witness ==
    /\ Rows = 1
    /\ pc[1] = "failed"
    /\ pc[2] = "check"
    /\ consumer = "waiting"
    /\ Len(example_queue) < batch_size
    /\ ~closed
    /\ ~stop_requested

\* C15: a next_batch waiting on the closed queue with fewer than batch_size
\* examples queued ends without a batch: nothing is returned, no batch is
\* counted, no batch ever has fewer than batch_size rows, and the examples
\* that were queued are never delivered; such a wait can only end that way,
\* and the consumer does not stay waiting once the queue is closed.
C15_CloseCancelsDequeue ==
    /\ [][ /\ (consumer = "waiting" /\ consumer' = "out_of_range") =>
                /\ closed
                /\ Len(example_queue) < batch_size
                /\ batch' = NoBatch
                /\ batches' = batches
           /\ consumer = "out_of_range" =>
                (consumer' = "out_of_range" /\ batch' = NoBatch /\ batches' = batches)
           /\ (consumer = "waiting" /\ closed /\ Len(example_queue) < batch_size) =>
                consumer' \in {"waiting", "out_of_range"}
           /\ (closed /\ Len(example_queue) < batch_size) =>
                (batches' = batches /\ batch' \in {batch, NoBatch})
         ]_vars
    /\ [](batch # NoBatch => Len(batch.source) = batch_size)
    /\ (consumer = "waiting" /\ closed) ~> (consumer # "waiting")

C15_Witness ==
    /\ consumer = "out_of_range"
    /\ batch_size = 2
    /\ Len(example_queue) = 1
    /\ batch = NoBatch

\* C16: once the queue is closed it never grows again, and a flag the
\* producers of the closed handle have seen set is never seen unset again,
\* whatever is called afterwards, a later start with a coordinator of its
\* own included.
C16_NoRestart ==
    [][ closed =>
          /\ closed'
          /\ Len(example_queue') <= Len(example_queue)
          /\ (Created >= 1 /\ stop_requested) => stop_requested' ]_vars

\* C17: the list the producers read holds the rows of the input, each once
\* and with its own transcript, in ascending order of byte size, from
\* construction on; no operation of the handle changes the list or the input.
SizeOf(row) == _filelist[row.wav_filename].wav_filesize

C17_SortedAndFrozen ==
    /\ []( /\ Len(_files_list) = Len(_filelist)
           /\ { _files_list[i].wav_filename : i \in 1..Len(_files_list) } =
                 { _filelist[k].wav_filename : k \in 1..Len(_filelist) }
           /\ \A i \in 1..Len(_files_list) :
                 _files_list[i].transcript =
                    _filelist[_files_list[i].wav_filename].transcript
           /\ \A i \in 1..Len(_files_list) : \A j \in i..Len(_files_list) :
                 SizeOf(_files_list[i]) <= SizeOf(_files_list[j]) )
    /\ [][ UNCHANGED <<_files_list, _filelist>> ]_vars

C17_Witness ==
    /\ Len(_files_list) = 3
    /\ _files_list[1].wav_filename = 3
    /\ _files_list[3].wav_filename = 2
    /\ total # -1
    /\ closed
    /\ batches >= 1
    /\ start_pc = "returned"
    /\ \E p \in Threads : index[p] >= 1

C19_RebuildAll ==
    (etl_pc # "start" /\ csv_found # {"train", "dev", "test"}) =>
        LET s2004 == _split_sets(corpus_2004)
            s2005 == _split_sets(corpus_2005)
        IN  /\ etl_pc = "done"
            /\ train_files = Table(s2004[1] \o s2005[1])
            /\ dev_files = Table(s2004[2] \o s2005[2])
            /\ test_files = Table(s2004[3] \o s2005[3])
            /\ csv_files = { to_csv(train_files, "fisher-train.csv"),
                             to_csv(dev_files, "fisher-dev.csv"),
                             to_csv(test_files, "fisher-test.csv") }
            /\ \A f \in csv_files : \A i \in 1..Len(f.rows) :
                  DOMAIN f.rows[i] = {"wav_filename", "wav_filesize", "transcript"}

====
